---- MODULE Spec2Model ----
(***************************************************************************)
(* Model of templates/python-pkg: src/app.py (a Flask application with one *)
(* view, `hello`, routed at '/') and tests/test_app.py (a pytest fixture   *)
(* that opens a test client on the imported application).                  *)
(*                                                                         *)
(* app.py is executed top to bottom, either as the top-level script        *)
(* (__name__ = "__main__") or by the test's import (__name__ = "src.app"). *)
(* The calls app.py makes into Flask (Flask(), route(), run(), the request *)
(* dispatch that reaches `hello`) are modelled by what Flask does for      *)
(* exactly these calls with exactly these arguments.                       *)
(***************************************************************************)
EXTENDS Integers, FiniteSets, Sequences, TLC

VARIABLES
    name,       \* value of __name__ while app.py executes
    pc,         \* position of the module-level code of app.py
    apps,       \* number of Flask objects app.py has constructed
    app,        \* the object bound to the module global `app`
    server,     \* the development server started by app.run, if any
    client,     \* the test client of the `client` fixture
    threads,    \* request-handling threads of the development server
    issued,     \* number of requests received so far
    log,        \* completed exchanges: request, response, view called
    retained    \* requests still referenced by the module after a view returned

vars == <<name, pc, apps, app, server, client, threads, issued, log, retained>>

\* Bounds of the model.
MaxInFlight == 2    \* requests the development server handles at the same time
MaxRequests == 2    \* requests received in one run

(***************************************************************************)
(* Requests.  A path is its sequence of segments: '/' is <<>>.             *)
(***************************************************************************)
Methods == {"GET", "HEAD", "OPTIONS", "POST"}
Paths   == {<<>>, <<"missing">>, <<"static", "x">>}
Queries == {"", "name=x"}
Headers == {"", "X-Debug: 1"}
Bodies  == {"", "payload"}

\* The requests sent: on '/', a request carries at most one of a query string,
\* an extra header and a body; on the other paths it carries none.
Requests ==
    {r \in [method : Methods, path : Paths, query : Queries, headers : Headers,
            body : Bodies] :
        Cardinality({f \in {"query", "headers", "body"} : r[f] # ""})
            <= (IF r.path = <<>> THEN 1 ELSE 0)}

\* The string app.py returns from hello().
Greeting == "Hello from DStudio Python Implementation!"

\* app = Flask(__name__): an empty configuration, and a URL map holding the
\* static-file rule every Flask object with a static folder gets at construction.
StaticRule ==
    [rule |-> <<"static", "<path:filename>">>, endpoint |-> "static",
     methods |-> {"GET", "HEAD", "OPTIONS"}, provide_automatic_options |-> TRUE]

Unbound ==
    [url_map |-> {}, view_functions |-> {}, config |-> [TESTING |-> FALSE],
     got_first_request |-> FALSE]

Flask ==
    [url_map |-> {StaticRule},
     view_functions |-> {[endpoint |-> "static", view |-> "send_static_file"]},
     config |-> [TESTING |-> FALSE],
     got_first_request |-> FALSE]

\* Variant: the route declared with methods=['GET', 'POST'].
route_methods_with_post == {"GET", "POST"}

\* @app.route('/') names no methods: the rule is declared for GET.
route_methods == {"GET"}

\* Flask.add_url_rule as route() calls it: OPTIONS is added because the rule
\* provides automatic options, HEAD because the rule answers GET.
add_url_rule(a, rule, endpoint, view, methods) ==
    LET all == methods \cup {"OPTIONS"}
                       \cup (IF "GET" \in methods THEN {"HEAD"} ELSE {})
    IN  [a EXCEPT
            !.url_map = @ \cup {[rule |-> rule, endpoint |-> endpoint, methods |-> all,
                                 provide_automatic_options |-> "OPTIONS" \notin methods]},
            !.view_functions = @ \cup {[endpoint |-> endpoint, view |-> view]}]

(***************************************************************************)
(* Routing.                                                                *)
(***************************************************************************)
IsConverter(seg) == seg = "<path:filename>"

\* A rule matches a path segment by segment; a path converter takes the rest.
RuleMatches(rule, path) ==
    /\ Len(path) >= Len(rule)
    /\ \A i \in 1..Len(rule) : IsConverter(rule[i]) \/ rule[i] = path[i]
    /\ \/ Len(path) = Len(rule)
       \/ Len(rule) > 0 /\ IsConverter(rule[Len(rule)])

NoMatch == [kind |-> "none", endpoint |-> "", allow |-> {}, options |-> FALSE]

\* The URL adapter's match: the rule for the path and method, else
\* MethodNotAllowed when some rule has the path, else NotFound.
match_request(a, req) ==
    LET onpath == {r \in a.url_map : RuleMatches(r.rule, req.path)}
        hit    == {r \in onpath : req.method \in r.methods}
    IN  IF hit # {}
        THEN LET r == CHOOSE r \in hit : TRUE
             IN  [kind |-> "endpoint", endpoint |-> r.endpoint, allow |-> r.methods,
                  options |-> r.provide_automatic_options]
        ELSE IF onpath # {}
        THEN [kind |-> "MethodNotAllowed", endpoint |-> "",
              allow |-> UNION {r.methods : r \in onpath}, options |-> FALSE]
        ELSE [kind |-> "NotFound", endpoint |-> "", allow |-> {}, options |-> FALSE]

(***************************************************************************)
(* Views.  A view runs with the request bound and with the module's        *)
(* globals in reach; it yields a return value or raises, and leaves the    *)
(* references the module holds.                                            *)
(***************************************************************************)
\* Variant: a view whose text is cut short.
hello_truncated(req, refs) == [raised |-> "", rv |-> "Hello from DStudio", refs |-> refs]

\* Variant: a view that greets by the query string.
hello_reads_query(req, refs) ==
    [raised |-> "", rv |-> IF req.query = "" THEN Greeting ELSE "Hello name=x",
     refs |-> refs]

\* Variant: a view that keeps its requests in a module-level list and answers
\* differently once it has seen one.
hello_counts(req, refs) ==
    [raised |-> "", rv |-> IF refs = {} THEN Greeting ELSE "Hello again",
     refs |-> refs \cup {req}]

\* def hello(): return 'Hello from DStudio Python Implementation!'
hello(req, refs) == [raised |-> "", rv |-> Greeting, refs |-> refs]

\* Flask's static view; the template ships no static file.
send_static_file(req, refs) == [raised |-> "NotFound", rv |-> "", refs |-> refs]

CallView(view, req, refs) ==
    IF view = "hello" THEN hello(req, refs) ELSE send_static_file(req, refs)

(***************************************************************************)
(* Responses.                                                              *)
(***************************************************************************)
NoResponse == [status |-> 0, body |-> "", content_type |-> "", allow |-> {}]

\* Response.default_mimetype of Flask, with the charset it appends.
default_content_type == "text/html; charset=utf-8"

\* Variant: the return value wrapped as plain text.
make_response_plain(rv) ==
    [status |-> 200, body |-> rv, content_type |-> "text/plain; charset=utf-8",
     allow |-> {}]

\* Flask.make_response for a str returned by a view.
make_response(rv) ==
    [status |-> 200, body |-> rv, content_type |-> default_content_type, allow |-> {}]

\* The response an HTTPException renders.
error_response(kind, allow) ==
    IF kind = "MethodNotAllowed"
    THEN [status |-> 405, body |-> "405 Method Not Allowed",
          content_type |-> default_content_type, allow |-> allow]
    ELSE [status |-> 404, body |-> "404 Not Found",
          content_type |-> default_content_type, allow |-> {}]

\* Flask.make_default_options_response.
options_response(allow) ==
    [status |-> 200, body |-> "", content_type |-> default_content_type, allow |-> allow]

\* The body of the response to a HEAD request is not sent.
finalize(req, resp) ==
    IF req.method = "HEAD" THEN [resp EXCEPT !.body = ""] ELSE resp

\* Flask.full_dispatch_request for a matched request: the response, the view
\* that was called ("" when none was) and the references the module holds.
full_dispatch_request(a, req, m, refs) ==
    IF m.kind # "endpoint"
    THEN [response |-> finalize(req, error_response(m.kind, m.allow)),
          view |-> "", refs |-> refs]
    ELSE IF m.options /\ req.method = "OPTIONS"
    THEN [response |-> options_response(m.allow), view |-> "", refs |-> refs]
    ELSE LET vf  == CHOOSE v \in a.view_functions : v.endpoint = m.endpoint
             out == CallView(vf.view, req, refs)
         IN  [response |-> finalize(req, IF out.raised = ""
                                         THEN make_response(out.rv)
                                         ELSE error_response(out.raised, {})),
              view |-> vf.view, refs |-> out.refs]

Idle == [stage |-> "idle", request |-> CHOOSE r \in Requests : TRUE,
         match |-> NoMatch, response |-> NoResponse, view |-> ""]

NoServer == [host |-> "", port |-> 0]

(***************************************************************************)
(* app.py, module level.                                                   *)
(***************************************************************************)
Init ==
    /\ name \in {"__main__", "src.app"}
    /\ pc = "line7"
    /\ apps = 0
    /\ app = Unbound
    /\ server = NoServer
    /\ client = "none"
    /\ threads = [t \in 1..MaxInFlight |-> Idle]
    /\ issued = 0
    /\ log = {}
    /\ retained = {}

\* line 7: app = Flask(__name__)
CreateApp ==
    /\ pc = "line7"
    /\ apps' = apps + 1
    /\ app' = Flask
    /\ pc' = "line10"
    /\ UNCHANGED <<name, server, client, threads, issued, log, retained>>

\* Variant: the route is not registered by the time line 16 is reached.
RegisterRoute_skipped ==
    /\ pc = "line10"
    /\ pc' = "line16"
    /\ UNCHANGED <<name, apps, app, server, client, threads, issued, log, retained>>

\* lines 10-13: @app.route('/') def hello()
RegisterRoute ==
    /\ pc = "line10"
    /\ app' = add_url_rule(app, <<>>, "hello", "hello", route_methods)
    /\ pc' = "line16"
    /\ UNCHANGED <<name, apps, server, client, threads, issued, log, retained>>

\* Variant: app.run() with Flask's defaults for host and port.
Main_defaults ==
    /\ pc = "line16"
    /\ IF name = "__main__"
       THEN /\ server' = [host |-> "127.0.0.1", port |-> 5000]
            /\ pc' = "serving"
       ELSE /\ server' = server
            /\ pc' = "imported"
    /\ UNCHANGED <<name, apps, app, client, threads, issued, log, retained>>

\* Variant: app.run(...) without the __name__ guard.
Main_unguarded ==
    /\ pc = "line16"
    /\ server' = [host |-> "0.0.0.0", port |-> 8080]
    /\ pc' = "serving"
    /\ UNCHANGED <<name, apps, app, client, threads, issued, log, retained>>

\* lines 16-17: if __name__ == '__main__': app.run(host='0.0.0.0', port=8080)
Main ==
    /\ pc = "line16"
    /\ IF name = "__main__"
       THEN /\ server' = [host |-> "0.0.0.0", port |-> 8080]
            /\ pc' = "serving"
       ELSE /\ server' = server
            /\ pc' = "imported"
    /\ UNCHANGED <<name, apps, app, client, threads, issued, log, retained>>

(***************************************************************************)
(* The development server: one thread per request.                         *)
(***************************************************************************)
\* A request arrives and is given the first idle thread: its context is pushed
\* and its URL matched.
Accept(t, req) ==
    /\ server # NoServer
    /\ issued < MaxRequests
    /\ threads[t].stage = "idle"
    /\ \A u \in 1..(t - 1) : threads[u].stage # "idle"
    /\ threads' = [threads EXCEPT ![t] =
                      [stage |-> "matched", request |-> req,
                       match |-> match_request(app, req),
                       response |-> NoResponse, view |-> ""]]
    /\ issued' = issued + 1
    /\ UNCHANGED <<name, pc, apps, app, server, client, log, retained>>

\* Variant: the request being handled is one process-wide global, so a thread
\* dispatches the request of the first thread that has one.
Dispatch_global_request(t) ==
    /\ threads[t].stage = "matched"
    /\ LET u   == CHOOSE u \in 1..MaxInFlight :
                     /\ threads[u].stage # "idle"
                     /\ \A w \in 1..(u - 1) : threads[w].stage = "idle"
           out == full_dispatch_request(app, threads[u].request, threads[u].match, retained)
       IN  /\ threads' = [threads EXCEPT ![t].stage = "finalized",
                                         ![t].response = out.response,
                                         ![t].view = out.view]
           /\ retained' = out.refs
    /\ app' = [app EXCEPT !.got_first_request = TRUE]
    /\ UNCHANGED <<name, pc, apps, server, client, issued, log>>

\* The thread dispatches its request and builds the response.
Dispatch(t) ==
    /\ threads[t].stage = "matched"
    /\ LET out == full_dispatch_request(app, threads[t].request, threads[t].match, retained)
       IN  /\ threads' = [threads EXCEPT ![t].stage = "finalized",
                                         ![t].response = out.response,
                                         ![t].view = out.view]
           /\ retained' = out.refs
    /\ app' = [app EXCEPT !.got_first_request = TRUE]
    /\ UNCHANGED <<name, pc, apps, server, client, issued, log>>

\* The response is sent and the request context popped.
Respond(t) ==
    /\ threads[t].stage = "finalized"
    /\ log' = log \cup {[request |-> threads[t].request,
                         response |-> threads[t].response,
                         view |-> threads[t].view,
                         via |-> "server"]}
    /\ threads' = [threads EXCEPT ![t] = Idle]
    /\ UNCHANGED <<name, pc, apps, app, server, client, issued, retained>>

(***************************************************************************)
(* tests/test_app.py                                                       *)
(***************************************************************************)
\* The fixture, up to its yield: app.config['TESTING'] = True; app.test_client()
client_setup ==
    /\ pc = "imported"
    /\ client = "none"
    /\ app' = [app EXCEPT !.config.TESTING = TRUE]
    /\ client' = "open"
    /\ UNCHANGED <<name, pc, apps, server, threads, issued, log, retained>>

\* client.open(...) as test_hello's client.get('/') calls it: the request is
\* handled to completion in the calling thread.
client_open(req) ==
    /\ client = "open"
    /\ issued < MaxRequests
    /\ LET out == full_dispatch_request(app, req, match_request(app, req), retained)
       IN  /\ log' = log \cup {[request |-> req, response |-> out.response,
                                view |-> out.view, via |-> "test_client"]}
           /\ retained' = out.refs
    /\ app' = [app EXCEPT !.got_first_request = TRUE]
    /\ issued' = issued + 1
    /\ UNCHANGED <<name, pc, apps, server, client, threads>>

\* The fixture after its yield: the with block closes the client.
client_teardown ==
    /\ client = "open"
    /\ client' = "closed"
    /\ UNCHANGED <<name, pc, apps, app, server, threads, issued, log, retained>>

Next ==
    \/ CreateApp
    \/ RegisterRoute
    \/ Main
    \/ \E t \in 1..MaxInFlight, req \in Requests : Accept(t, req)
    \/ \E t \in 1..MaxInFlight : Dispatch(t)
    \/ \E t \in 1..MaxInFlight : Respond(t)
    \/ client_setup
    \/ \E req \in Requests : client_open(req)
    \/ client_teardown

Spec == Init /\ [][Next]_vars

(***************************************************************************)
(* Properties.                                                             *)
(***************************************************************************)
IsGetRoot(req) == req.method = "GET" /\ req.path = <<>>

IsGreeting(resp) == resp.status = 200 /\ resp.body = Greeting

AllIdle == \A t \in 1..MaxInFlight : threads[t].stage = "idle"

\* The rule app.py registers: everything in the URL map but Flask's static rule.
OwnRules == {r \in app.url_map : r.endpoint # "static"}

HelloRegistered ==
    \E r \in app.url_map :
        r.rule = <<>> /\ r.endpoint = "hello" /\ "GET" \in r.methods

\* C1: every completed GET / has status 200 and the greeting as its body,
\* whether served by the development server or by the test client after
\* TESTING was set, and whatever requests came before.
C1_GetRootIsGreeting ==
    \A e \in log : IsGetRoot(e.request) => IsGreeting(e.response)

\* A GET / answered through the test client (TESTING set) after an earlier,
\* different request.
C1_Witness ==
    /\ app.config.TESTING
    /\ \E e \in log : IsGetRoot(e.request) /\ e.via = "test_client"
    /\ \E e \in log : ~IsGetRoot(e.request)

\* C2 as stated: any request other than GET / is kept from the greeting
\* handler and is answered 404 or 405.
C2_OnlyGetRootReachesHello ==
    \A e \in log :
        ~IsGetRoot(e.request) =>
            e.view # "hello" /\ e.response.status \in {404, 405}

\* C2 amended: app.py registers one rule, on '/', which answers GET, HEAD and
\* OPTIONS.  No request other than GET / is answered with the 200 greeting,
\* and hello is reached by no request other than GET / and HEAD /.  HEAD / gets
\* 200 with an empty body.  OPTIONS never reaches a view: on '/' it gets the
\* automatic 200 response listing GET, HEAD and OPTIONS, on another path that
\* response or 404.  Every other request gets 404 or 405, and 405 on '/'.
C2_RouteAnswersGetHeadOptions ==
    /\ pc \notin {"line7", "line10"} =>
          /\ Cardinality(OwnRules) = 1
          /\ \A r \in OwnRules :
                r.rule = <<>> /\ r.methods = {"GET", "HEAD", "OPTIONS"}
    /\ \A e \in log :
          LET root == e.request.path = <<>>
              m    == e.request.method
          IN  ~IsGetRoot(e.request) =>
                 /\ ~IsGreeting(e.response)
                 /\ (e.view = "hello") = (root /\ m = "HEAD")
                 /\ root /\ m = "HEAD" =>
                       e.response.status = 200 /\ e.response.body = ""
                 /\ m = "OPTIONS" =>
                       /\ e.view = ""
                       /\ e.response.status \in {200, 404}
                       /\ root => e.response.status = 200
                       /\ e.response.status = 200 =>
                             /\ e.response.body = ""
                             /\ e.response.allow = {"GET", "HEAD", "OPTIONS"}
                 /\ m # "OPTIONS" /\ ~(root /\ m = "HEAD") =>
                       /\ e.response.status \in {404, 405}
                       /\ root => e.response.status = 405

\* A HEAD / and a POST / have both been answered.
C2_Witness ==
    /\ \E e \in log : e.request.path = <<>> /\ e.request.method = "HEAD"
    /\ \E e \in log : e.request.path = <<>> /\ e.request.method = "POST"

\* C3 as stated: the response to GET / is plain text.
C3_GetRootIsPlainText ==
    \A e \in log :
        IsGetRoot(e.request) => e.response.content_type = "text/plain; charset=utf-8"

\* C3 amended: the response to GET / carries the content type Flask gives a
\* string returned from a view, which is text/html with charset utf-8.
C3_GetRootIsDefaultHtml ==
    \A e \in log :
        IsGetRoot(e.request) => e.response.content_type = "text/html; charset=utf-8"

\* A GET / has been answered.
C3_Witness ==
    \E e \in log : IsGetRoot(e.request) /\ e.response.content_type # ""

\* C4: the same request always gets the same response: no two completed
\* exchanges for one request differ, in particular not two GET / in their body.
C4_Deterministic ==
    \A e1, e2 \in log :
        e1.request = e2.request => e1.response = e2.response

\* Two requests were received and answered, and they left a single exchange:
\* the same GET / twice.
C4_Witness ==
    /\ issued >= 2
    /\ AllIdle
    /\ Cardinality(log) = 1
    /\ \E e \in log : IsGetRoot(e.request)

\* C5: GET / requests that differ in query string, headers or body get the
\* same status and body, and none of them is rejected.
C5_IgnoresRequestInput ==
    \A e1, e2 \in log :
        IsGetRoot(e1.request) /\ IsGetRoot(e2.request) =>
            /\ e1.response.status = e2.response.status
            /\ e1.response.body = e2.response.body
            /\ e1.response.status < 400

\* Two GET / that differ in query string, headers or body have been answered.
C5_Witness ==
    \E e1, e2 \in log :
        /\ IsGetRoot(e1.request) /\ IsGetRoot(e2.request)
        /\ e1.request # e2.request

\* C6: a step that receives, dispatches or answers a request leaves the
\* registered routes, the view functions and the configuration as they were,
\* and the module holds no reference to a request before or after it.
C6_RequestsLeaveAppUnchanged ==
    [][(issued' # issued \/ threads' # threads \/ log' # log) =>
          /\ app'.url_map = app.url_map
          /\ app'.view_functions = app.view_functions
          /\ app'.config = app.config
          /\ retained = {}
          /\ retained' = {}]_vars

\* Requests have been dispatched (Flask has noted its first request) and
\* answered.
C6_Witness ==
    /\ issued >= 2
    /\ app.got_first_request
    /\ \E e \in log : e.view = "hello"

\* C7: run as the main entry point, the module starts the server on host
\* 0.0.0.0 and port 8080, and a server is never bound to anything else.
C7_BindsWildcard8080 ==
    /\ server \in {NoServer, [host |-> "0.0.0.0", port |-> 8080]}
    /\ name = "__main__" /\ pc \notin {"line7", "line10", "line16"} =>
          server = [host |-> "0.0.0.0", port |-> 8080]

\* The main module has reached app.run.
C7_Witness == name = "__main__" /\ pc = "serving" /\ server.port = 8080

\* C8: the server is started exactly when the module runs as the top-level
\* script.  An import constructs the application and registers the route
\* without serving, and the test client still gets the greeting for GET /.
C8_ServesIffMain ==
    /\ server # NoServer => name = "__main__"
    /\ pc \in {"serving", "imported"} =>
          /\ (pc = "serving") = (name = "__main__")
          /\ (server # NoServer) = (name = "__main__")
          /\ apps = 1
          /\ HelloRegistered
    /\ name # "__main__" =>
          \A e \in log :
              /\ e.via = "test_client"
              /\ IsGetRoot(e.request) => IsGreeting(e.response)

\* The imported application answered GET / through the test client, with no
\* server started.
C8_Witness ==
    /\ name = "src.app" /\ pc = "imported" /\ server = NoServer
    /\ \E e \in log :
          e.via = "test_client" /\ IsGetRoot(e.request) /\ IsGreeting(e.response)

\* C9: whatever other requests are in flight or done, a thread that has
\* built the response to a GET / holds the 200 greeting, and handling
\* requests leaves nothing behind that a later request could read.
C9_ConcurrentGetRootIsGreeting ==
    /\ \A t \in 1..MaxInFlight :
          threads[t].stage = "finalized" /\ IsGetRoot(threads[t].request) =>
              IsGreeting(threads[t].response) /\ threads[t].view = "hello"
    /\ retained = {}

\* A GET / has its response built while a different request is in flight on
\* another thread.
C9_Witness ==
    \E t, u \in 1..MaxInFlight :
        /\ t # u
        /\ threads[t].stage = "finalized" /\ IsGetRoot(threads[t].request)
        /\ threads[u].stage # "idle" /\ ~IsGetRoot(threads[u].request)

\* C10: one application object is created, and the greeting route is on it
\* before a server serves or a test client exists, so a GET / is never
\* matched or answered as not found.
C10_RouteRegisteredBeforeServing ==
    /\ apps <= 1
    /\ pc # "line7" => apps = 1
    /\ (server # NoServer \/ client # "none") => apps = 1 /\ HelloRegistered
    /\ \A t \in 1..MaxInFlight :
          threads[t].stage # "idle" /\ IsGetRoot(threads[t].request) =>
              threads[t].match.kind = "endpoint"
    /\ \A e \in log : IsGetRoot(e.request) => e.response.status # 404

\* The server has matched a GET / to the hello endpoint.
C10_Witness ==
    /\ server # NoServer
    /\ \E t \in 1..MaxInFlight :
          /\ threads[t].stage = "matched"
          /\ IsGetRoot(threads[t].request)
          /\ threads[t].match.endpoint = "hello"

====
